---- MODULE Spec2Model ----
(***************************************************************************)
(* Model of InitConfigTask/relay_integration.py: the task-extraction       *)
(* driver extract_from_multiple_program, its single-program wrapper        *)
(* extract_from_program, and the TaskExtractEnv singleton they drive.      *)
(*                                                                         *)
(* One call is executed at a time by one driver thread; pc is the line of  *)
(* the driver that runs next.  TaskExtractEnv lives in topi_integration,   *)
(* which is not part of the sources at hand: env_reset, env_enter,         *)
(* env_exit, env_record and env_get_tasks follow the specification's       *)
(* Invocation Ledger and Interception Scope.                               *)
(***************************************************************************)
EXTENDS Naturals, Sequences, FiniteSets

VARIABLES
    pc,             \* position of the driver thread
    via,            \* entry point of the running call: "single" or "multi"
    funcs,          \* argument funcs of extract_from_multiple_program
    params,         \* argument params
    ops,            \* argument ops (the operator filter)
    target,         \* argument target, canonical after line 123
    target_host,    \* argument target_host
    i,              \* number of (func, param) pairs taken from zip so far
    old_state,      \* local old_state of line 129
    ledger,         \* env.task_collection: recorded invocations, first seen first
    wanted,         \* the filter stored by env.reset
    tracing,        \* whether the interception scope of env is active
    loggerDisabled, \* logger.disabled of the "autotvm" logger
    clears,         \* clears of the te_compiler cache made by the running call
    result,         \* how the call ended: "none", "return" or "raise"
    err,            \* the exception that ended the call, "none" if none
    tasks,          \* the list the call returned
    callNo,         \* number of calls begun so far
    logAtEntry,     \* logger.disabled when the running call began
    entered,        \* whether the running call has entered the scope
    prev,           \* how the call before the running one ended, "none" at first
    cfg,            \* the build configurations in force, innermost last
    steps,          \* what the running call of _lower has done so far
    warnings        \* DispatchContext.warning_messages

vars == << pc, via, funcs, params, ops, target, target_host, i, old_state,
           ledger, wanted, tracing, loggerDisabled, clears, result, err,
           tasks, callNo, logAtEntry, entered, prev, cfg, steps, warnings >>

(***************************************************************************)
(* Bounds of the model.                                                    *)
(***************************************************************************)
MaxLen == 2
MaxCalls == 2

None == "None"

(***************************************************************************)
(* Inputs.  A program is known by what its lowering does: the tunable      *)
(* operator invocations the pipeline dispatches for it, in order, and      *)
(* whether relay.optimize raises on it or never comes back.                *)
(***************************************************************************)
Rec(n, s) == [name |-> n, sig |-> s]

Programs == {"X", "Y", "V", "W", "H"}

Trace(p) ==
    CASE p = "X" -> << Rec("conv2d", "S1"), Rec("conv2d", "S1"), Rec("dense", "S2") >>
      [] p = "Y" -> << Rec("dense", "Sbad"), Rec("conv2d", "S1"), Rec("conv2d", "S3") >>
      [] p = "V" -> << Rec("conv2d", "S1"), Rec("conv2d", "Sfatal") >>
      [] OTHER   -> << Rec("dense", "S2") >>

LoweringRaises(p) == p = "W"

LoweringHangs(p) == p = "H"

ParamSets == {"p1"}

\* ops: None (every operator is traced) or a collection of operator names.
NoFilter == [all |-> TRUE, names |-> {}]

Only(S) == [all |-> FALSE, names |-> S]

Filters == { NoFilter, Only({"conv2d"}) }

\* (target, target_host) as the caller passes them.
Targets == { << "llvm", None >>, << "vta", "llvm" >> }

\* (ops, target, target_host) as a caller of the batch driver passes them.
BatchArgs ==
    { << NoFilter, "llvm", None >>, << Only({"conv2d"}), "vta", "llvm" >> }

SeqsUpTo(S, n) == UNION { [1..k -> S] : k \in 0..n }

StaleLedgers ==
    { << >>, << Rec("conv2d", "S9"), Rec("dense", "Sbad"), Rec("dense", "S2") >> }

(***************************************************************************)
(* TaskExtractEnv (topi_integration).                                      *)
(***************************************************************************)
env_reset(o) == [ledger |-> << >>, wanted |-> o]

env_enter(tr) == TRUE

env_exit(tr) == FALSE

InSeq(x, s) == \E k \in 1..Len(s) : s[k] = x

env_record(l, w, tr, r) ==
    IF ~tr THEN l
    ELSE IF ~w.all /\ r.name \notin w.names THEN l
    ELSE IF InSeq(r, l) THEN l
    ELSE Append(l, r)

env_get_tasks(l) == l

(***************************************************************************)
(* Target.canon_target_and_host: the host is merged into the target.       *)
(***************************************************************************)
canon_target_and_host(t, h) ==
    [target |-> [dev |-> t, host |-> h], target_host |-> h]

(***************************************************************************)
(* create(task_name, args, target) of .task, and the loop of lines         *)
(* 147-155 around it: a record whose construction raises                   *)
(* topi.InvalidShapeError is skipped with a warning.                       *)
(***************************************************************************)
InvalidShape(r) == r.sig = "Sbad"

\* create raising an error that is no topi.InvalidShapeError.
FatalCreate(r) == r.sig = "Sfatal"

create(r, t) == [name |-> r.name, args |-> r.sig, target |-> t]

RECURSIVE CreateTasks(_, _)
CreateTasks(recs, t) ==
    IF recs = << >> THEN << >>
    ELSE IF InvalidShape(Head(recs)) THEN CreateTasks(Tail(recs), t)
    ELSE << create(Head(recs), t) >> \o CreateTasks(Tail(recs), t)

\* Lines 149-153 catch topi.InvalidShapeError alone: any other error of
\* create leaves the loop and the function.
CreateRaises(recs) == \E k \in 1..Len(recs) : FatalCreate(recs[k])

(***************************************************************************)
(* Names.  Line 135 reads the name mod; Python looks a name up among the   *)
(* function's locals, then the module's globals (the builtins hold no      *)
(* mod).  extract_from_multiple_program takes the parameters of line 89.   *)
(***************************************************************************)
LocalNames ==
    { "funcs", "params", "ops", "target", "target_host", "relay", "topi",
      "env", "old_state", "func", "param", "build_thread", "tasks",
      "task_name", "args", "tsk" }

GlobalNames ==
    { "threading", "logging", "tvm", "DispatchContext", "FallbackContext",
      "Target", "create", "TaskExtractEnv", "logger", "_lower",
      "extract_from_program", "extract_from_multiple_program" }

NameBound(n) == n \in LocalNames \cup GlobalNames

\* The names _lower binds: its parameters, the imports of lines 42, 43 and
\* 47, and the targets of lines 49-50 and 53-54.
LowerLocalNames ==
    { "func", "target", "params", "relay", "graph_executor_codegen", "vta",
      "mod", "_", "grc" }

LowerNameBound(n) == n \in LowerLocalNames \cup GlobalNames

MultiParamNames == { "funcs", "params", "ops", "target", "target_host" }

WrapperKeywords == { "template_keys" }

Min(a, b) == IF a < b THEN a ELSE b

\* Mutant of ZipLen: the loop runs once per parameter set.
ZipLenOfParams(fs, ps) == Len(ps)

\* Line 132: zip stops at the shorter of its two arguments.
ZipLen(fs, ps) == Min(Len(fs), Len(ps))

\* Mutant of Line126: the driver does not reset the env.
Line126Skipped(l, w, o) == [ledger |-> l, wanted |-> w]

\* Line 126: env.reset(ops).
Line126(l, w, o) == env_reset(o)

\* Mutant of EnterOnWith: the loop is not inside a with statement, and the
\* scope is not entered.
NoEnterOnWith(tr) == tr

\* Line 127: a with statement runs the entry of env before its block.
EnterOnWith(tr) == env_enter(tr)

\* Mutant of ExitOnException: the scope is left open when an exception
\* leaves the block (the block is not guarded by a with statement).
NoExitOnException(tr) == tr

\* Line 127: a with statement runs the exit of env when an exception
\* leaves its block.
ExitOnException(tr) == env_exit(tr)

(***************************************************************************)
(* Initial state: no call is running.  The env is a process-wide           *)
(* singleton, so it may hold what an earlier session left in it.           *)
(***************************************************************************)
Init ==
    /\ pc = "idle"
    /\ via = "none"
    /\ funcs = << >>
    /\ params = << >>
    /\ ops = NoFilter
    /\ target = [dev |-> "llvm", host |-> None]
    /\ target_host = None
    /\ i = 0
    /\ old_state = FALSE
    /\ ledger \in StaleLedgers
    /\ wanted = NoFilter
    /\ tracing = FALSE
    /\ loggerDisabled = FALSE
    /\ clears = 0
    /\ result = "none"
    /\ err = "none"
    /\ tasks = << >>
    /\ callNo = 0
    /\ logAtEntry = FALSE
    /\ entered = FALSE
    /\ prev = "none"
    /\ cfg = << >>
    /\ steps = << >>
    /\ warnings = {}

Begin(v, fs, ps, o, t, h, next) ==
    /\ pc = "idle"
    /\ callNo < MaxCalls
    /\ callNo' = callNo + 1
    /\ via' = v
    /\ funcs' = fs
    /\ params' = ps
    /\ ops' = o
    /\ target' = [dev |-> t, host |-> None]
    /\ target_host' = h
    /\ i' = 0
    /\ clears' = 0
    /\ result' = "none"
    /\ err' = "none"
    /\ tasks' = << >>
    /\ logAtEntry' = loggerDisabled
    /\ entered' = FALSE
    /\ pc' = next
    /\ UNCHANGED << old_state, ledger, wanted, tracing, loggerDisabled, prev,
                    cfg, steps, warnings >>

\* A caller calls extract_from_multiple_program(funcs, params, ops, target, target_host).
CallMulti ==
    \E fs \in SeqsUpTo(Programs, MaxLen), ps \in SeqsUpTo(ParamSets, MaxLen),
       a \in BatchArgs :
        Begin("multi", fs, ps, a[1], a[2], a[3], "canon")

\* A caller calls extract_from_program(func, params, target, target_host, ops).
CallSingle ==
    \E f \in Programs, p \in ParamSets, o \in Filters, th \in Targets :
        Begin("single", << f >>, << p >>, o, th[1], th[2], "bind")

\* Lines 85-86: the wrapper calls extract_from_multiple_program with the
\* keyword template_keys; a keyword the callee does not take is a TypeError.
Bind ==
    /\ pc = "bind"
    /\ IF WrapperKeywords \subseteq MultiParamNames
       THEN /\ pc' = "canon"
            /\ UNCHANGED << result, err >>
       ELSE /\ pc' = "done"
            /\ result' = "raise"
            /\ err' = "TypeError"
    /\ UNCHANGED << via, funcs, params, ops, target, target_host, i, old_state,
                    ledger, wanted, tracing, loggerDisabled, clears, tasks,
                    callNo, logAtEntry, entered, prev,
                    cfg, steps, warnings >>

\* Lines 120-123.
Canon ==
    /\ pc = "canon"
    /\ target' = canon_target_and_host(target.dev, target_host).target
    /\ target_host' = canon_target_and_host(target.dev, target_host).target_host
    /\ pc' = "reset"
    /\ UNCHANGED << via, funcs, params, ops, i, old_state, ledger, wanted,
                    tracing, loggerDisabled, clears, result, err, tasks,
                    callNo, logAtEntry, entered, prev,
                    cfg, steps, warnings >>

\* Line 126.
Reset ==
    /\ pc = "reset"
    /\ ledger' = Line126(ledger, wanted, ops).ledger
    /\ wanted' = Line126(ledger, wanted, ops).wanted
    /\ pc' = "enter"
    /\ UNCHANGED << via, funcs, params, ops, target, target_host, i, old_state,
                    tracing, loggerDisabled, clears, result, err, tasks,
                    callNo, logAtEntry, entered, prev,
                    cfg, steps, warnings >>

\* Line 127, entry of the with statement.
Enter ==
    /\ pc = "enter"
    /\ tracing' = EnterOnWith(tracing)
    /\ entered' = TRUE
    /\ pc' = "savelog"
    /\ UNCHANGED << via, funcs, params, ops, target, target_host, i, old_state,
                    ledger, wanted, loggerDisabled, clears, result, err, tasks,
                    callNo, logAtEntry, prev,
                    cfg, steps, warnings >>

\* Lines 129-130.
SuppressLog ==
    /\ pc = "savelog"
    /\ old_state' = loggerDisabled
    /\ loggerDisabled' = TRUE
    /\ pc' = "loop"
    /\ UNCHANGED << via, funcs, params, ops, target, target_host, i, ledger,
                    wanted, tracing, clears, result, err, tasks, callNo,
                    logAtEntry, entered, prev,
                    cfg, steps, warnings >>

\* Line 132: zip yields the next pair, or is exhausted.
LoopNext ==
    /\ pc = "loop"
    /\ IF i < ZipLen(funcs, params)
       THEN /\ i' = i + 1
            /\ pc' = "clear1"
       ELSE /\ i' = i
            /\ pc' = "restorelog"
    /\ UNCHANGED << via, funcs, params, ops, target, target_host, old_state,
                    ledger, wanted, tracing, loggerDisabled, clears, result,
                    err, tasks, callNo, logAtEntry, entered, prev,
                    cfg, steps, warnings >>

\* Line 133.
ClearCache1 ==
    /\ pc = "clear1"
    /\ clears' = clears + 1
    /\ pc' = "mkthread"
    /\ UNCHANGED << via, funcs, params, ops, target, target_host, i, old_state,
                    ledger, wanted, tracing, loggerDisabled, result, err,
                    tasks, callNo, logAtEntry, entered, prev,
                    cfg, steps, warnings >>

\* Line 135: the arguments of the thread are evaluated in the driver; the
\* name mod is bound nowhere, which raises NameError before a thread exists.
MakeThread ==
    /\ pc = "mkthread"
    /\ ~NameBound("mod")
    /\ err' = "NameError"
    /\ pc' = "unwind"
    /\ UNCHANGED << via, funcs, params, ops, target, target_host, i, old_state,
                    ledger, wanted, tracing, loggerDisabled, clears, result,
                    tasks, callNo, logAtEntry, entered, prev,
                    cfg, steps, warnings >>

\* Line 127: the exception leaves the with block, whose exit runs; the
\* exception then leaves the function (line 144 is not reached).
Unwind ==
    /\ pc = "unwind"
    /\ tracing' = ExitOnException(tracing)
    /\ result' = "raise"
    /\ pc' = "done"
    /\ UNCHANGED << via, funcs, params, ops, target, target_host, i, old_state,
                    ledger, wanted, loggerDisabled, clears, err, tasks, callNo,
                    logAtEntry, entered, prev,
                    cfg, steps, warnings >>

\* Line 144.
RestoreLog ==
    /\ pc = "restorelog"
    /\ loggerDisabled' = old_state
    /\ pc' = "exit"
    /\ UNCHANGED << via, funcs, params, ops, target, target_host, i, old_state,
                    ledger, wanted, tracing, clears, result, err, tasks,
                    callNo, logAtEntry, entered, prev,
                    cfg, steps, warnings >>

\* Line 127, normal end of the with block.
ExitScope ==
    /\ pc = "exit"
    /\ tracing' = env_exit(tracing)
    /\ pc' = "materialize"
    /\ UNCHANGED << via, funcs, params, ops, target, target_host, i, old_state,
                    ledger, wanted, loggerDisabled, clears, result, err, tasks,
                    callNo, logAtEntry, entered, prev,
                    cfg, steps, warnings >>

\* Lines 147-155.
Materialize ==
    /\ pc = "materialize"
    /\ IF CreateRaises(env_get_tasks(ledger))
       THEN /\ tasks' = << >>
            /\ result' = "raise"
            /\ err' = "CreateError"
       ELSE /\ tasks' = CreateTasks(env_get_tasks(ledger), target)
            /\ result' = "return"
            /\ err' = err
    /\ pc' = "done"
    /\ UNCHANGED << via, funcs, params, ops, target, target_host, i, old_state,
                    ledger, wanted, tracing, loggerDisabled, clears,
                    callNo, logAtEntry, entered, prev,
                    cfg, steps, warnings >>

\* Line 155, or the exception leaving the function: the call's frame ends
\* and control is back in the caller.
ReturnToCaller ==
    /\ pc = "done"
    /\ pc' = "idle"
    /\ prev' = result
    /\ via' = "none"
    /\ funcs' = << >>
    /\ params' = << >>
    /\ ops' = NoFilter
    /\ target' = [dev |-> "llvm", host |-> None]
    /\ target_host' = None
    /\ i' = 0
    /\ old_state' = FALSE
    /\ clears' = 0
    /\ result' = "none"
    /\ err' = "none"
    /\ tasks' = << >>
    /\ logAtEntry' = FALSE
    /\ entered' = FALSE
    /\ steps' = << >>
    /\ UNCHANGED << ledger, wanted, tracing, loggerDisabled, callNo, cfg,
                    warnings >>

(***************************************************************************)
(* _lower(func, target, params), lines 36-55, run by the thread that calls *)
(* it.  relay.optimize may leave a fallback warning with the dispatch      *)
(* layer.                                                                  *)
(***************************************************************************)
CallLower ==
    \E f \in Programs, p \in ParamSets, th \in Targets :
        Begin("lower", << f >>, << p >>, NoFilter, th[1], th[2], "l_test")

LowerFrame ==
    UNCHANGED << via, funcs, params, ops, target, target_host, i, old_state,
                 ledger, wanted, tracing, loggerDisabled, clears, tasks,
                 callNo, logAtEntry, entered, prev >>

\* Line 45.
LowerTest ==
    /\ pc = "l_test"
    /\ pc' = IF target.dev = "vta" THEN "l_cfg1" ELSE "l_opt"
    /\ LowerFrame
    /\ UNCHANGED << result, err, cfg, steps, warnings >>

\* Line 46.
LowerRelayConfig ==
    /\ pc = "l_cfg1"
    /\ cfg' = Append(cfg, "relay.build_config")
    /\ steps' = Append(steps, "relay.build_config")
    /\ pc' = "l_cfg2"
    /\ LowerFrame
    /\ UNCHANGED << result, err, warnings >>

\* Lines 47-48.
LowerVtaConfig ==
    /\ pc = "l_cfg2"
    /\ cfg' = Append(cfg, "vta.build_config")
    /\ steps' = Append(steps, "vta.build_config")
    /\ pc' = "l_opt"
    /\ LowerFrame
    /\ UNCHANGED << result, err, warnings >>

\* Lines 49 and 53: relay.optimize returns, raises, or never comes back.
LowerOptimize ==
    /\ pc = "l_opt"
    /\ ~LoweringHangs(funcs[1])
    /\ IF LoweringRaises(funcs[1])
       THEN /\ err' = "LoweringFailure"
            /\ pc' = "l_unwind"
            /\ UNCHANGED << steps, warnings >>
       ELSE /\ steps' = Append(steps, "optimize")
            /\ pc' = "l_codegen"
            /\ warnings' \in { warnings, warnings \cup {"fallback"} }
            /\ err' = err
    /\ LowerFrame
    /\ UNCHANGED << result, cfg >>

\* Lines 50 and 54 read the name graph_runtime_codegen; line 43 imported
\* graph_executor_codegen.
LowerCodegen ==
    /\ pc = "l_codegen"
    /\ IF LowerNameBound("graph_runtime_codegen")
       THEN /\ steps' = Append(steps, "codegen")
            /\ pc' = "l_unwind"
            /\ err' = err
       ELSE /\ err' = "NameError"
            /\ pc' = "l_unwind"
            /\ steps' = steps
    /\ LowerFrame
    /\ UNCHANGED << result, cfg, warnings >>

\* Lines 46 and 48: the with statements leave their configurations,
\* innermost first, on return and on an exception; then the call ends.
LowerLeave ==
    /\ pc = "l_unwind"
    /\ IF cfg # << >>
       THEN /\ cfg' = SubSeq(cfg, 1, Len(cfg) - 1)
            /\ pc' = pc
            /\ result' = result
       ELSE /\ cfg' = cfg
            /\ pc' = "done"
            /\ result' = IF err = "none" THEN "return" ELSE "raise"
    /\ LowerFrame
    /\ UNCHANGED << err, steps, warnings >>

Next ==
    \/ CallMulti
    \/ CallSingle
    \/ Bind
    \/ Canon
    \/ Reset
    \/ Enter
    \/ SuppressLog
    \/ LoopNext
    \/ ClearCache1
    \/ MakeThread
    \/ Unwind
    \/ RestoreLog
    \/ ExitScope
    \/ Materialize
    \/ ReturnToCaller
    \/ CallLower
    \/ LowerTest
    \/ LowerRelayConfig
    \/ LowerVtaConfig
    \/ LowerOptimize
    \/ LowerCodegen
    \/ LowerLeave

Spec == Init /\ [][Next]_vars

TypeOK ==
    /\ pc \in { "idle", "bind", "canon", "reset", "enter", "savelog", "loop",
                "clear1", "mkthread", "unwind", "restorelog", "exit",
                "materialize", "done", "l_test", "l_cfg1", "l_cfg2", "l_opt",
                "l_codegen", "l_unwind" }
    /\ via \in {"none", "single", "multi", "lower"}
    /\ result \in {"none", "return", "raise"}
    /\ err \in {"none", "NameError", "TypeError", "CreateError", "LoweringFailure"}
    /\ Len(cfg) \in 0..2
    /\ warnings \subseteq {"fallback"}
    /\ i \in 0..MaxLen + 1
    /\ callNo \in 0..MaxCalls + 1
    /\ tracing \in BOOLEAN
    /\ loggerDisabled \in BOOLEAN
    /\ prev \in {"none", "return", "raise"}

(***************************************************************************)
(* What the batch of a call is expected to record: the invocations its     *)
(* programs dispatch, filtered and without duplicates, first seen first.    *)
(***************************************************************************)
RECURSIVE BatchTrace(_)
BatchTrace(fs) ==
    IF fs = << >> THEN << >> ELSE Trace(Head(fs)) \o BatchTrace(Tail(fs))

RECURSIVE RecordAll(_, _, _)
RecordAll(l, w, tr) ==
    IF tr = << >> THEN l
    ELSE RecordAll(env_record(l, w, TRUE, Head(tr)), w, Tail(tr))

FirstSeen(fs, w) == RecordAll(<< >>, w, BatchTrace(fs))

KeyOf(t) == Rec(t.name, t.args)

Count(x, s) == Cardinality({ k \in 1..Len(s) : s[k] = x })

NoneRaises(fs) == \A k \in 1..Len(fs) : ~LoweringRaises(fs[k])

NoneHangs(fs) == \A k \in 1..Len(fs) : ~LoweringHangs(fs[k])

NoneFatal(fs) ==
    \A k \in 1..Len(BatchTrace(fs)) : ~FatalCreate(BatchTrace(fs)[k])

\* A batch whose lowering passes all end without an error and whose
\* invocations all construct or are rejected for their shape.
Benign(fs) == NoneRaises(fs) /\ NoneHangs(fs) /\ NoneFatal(fs)

FirstRaising(fs) ==
    CHOOSE k \in 1..Len(fs) :
        /\ LoweringRaises(fs[k])
        /\ \A m \in 1..(k - 1) : ~LoweringRaises(fs[m])

\* A call of extract_from_multiple_program has ended, on as many programs as
\* parameter sets.
EndedBatch == pc = "done" /\ via = "multi" /\ Len(funcs) = Len(params)

\* C1: a call on a batch whose programs dispatch an (operator, signature)
\* combination one or more times returns a list holding exactly one task for
\* that combination, when the combination passes the filter and constructs.
C1_OneTaskPerCombination ==
    (EndedBatch /\ Benign(funcs)) =>
        \A k \in 1..Len(FirstSeen(funcs, ops)) :
            LET r == FirstSeen(funcs, ops)[k] IN
            ~InvalidShape(r) =>
                /\ result = "return"
                /\ Count(create(r, target), tasks) = 1

\* C2: the tasks returned are in the first-seen order of the distinct
\* invocations of the batch (here for batches all of whose invocations
\* construct).
C2_TasksInFirstSeenOrder ==
    (/\ EndedBatch
     /\ Benign(funcs)
     /\ \A k \in 1..Len(FirstSeen(funcs, ops)) : ~InvalidShape(FirstSeen(funcs, ops)[k]))
    => [k \in 1..Len(tasks) |-> KeyOf(tasks[k])] = FirstSeen(funcs, ops)

\* C3: when the lowering of a program of the batch raises, the call raises
\* at that program with the lowering's failure, after the programs before it
\* were lowered, and returns no list.
C3_LoweringFailureSurfaces ==
    (EndedBatch /\ ~NoneRaises(funcs) /\ NoneHangs(funcs)) =>
        /\ result = "raise"
        /\ tasks = << >>
        /\ i = FirstRaising(funcs)
        /\ err = "LoweringFailure"

\* C4: a batch with a recorded invocation that task construction rejects and
\* others it accepts returns normally, with the accepted tasks in order.
C4_SkipOnInvalidShape ==
    (/\ EndedBatch
     /\ Benign(funcs)
     /\ \E k \in 1..Len(FirstSeen(funcs, ops)) : InvalidShape(FirstSeen(funcs, ops)[k])
     /\ \E k \in 1..Len(FirstSeen(funcs, ops)) : ~InvalidShape(FirstSeen(funcs, ops)[k]))
    => /\ result = "return"
       /\ err = "none"
       /\ tasks = CreateTasks(FirstSeen(funcs, ops), target)

\* The driver is past line 126 of the running call.
PastReset ==
    /\ via = "multi"
    /\ pc \in { "enter", "savelog", "loop", "clear1", "mkthread", "unwind",
                "restorelog", "exit", "materialize", "done" }

\* C5: once a call has reset the env, the ledger holds only invocations of
\* programs this call has taken up, and so does the list it returns: nothing
\* recorded before the call is carried over.
C5_NoCarryOver ==
    PastReset =>
        /\ \A k \in 1..Len(ledger) :
               InSeq(ledger[k], BatchTrace(SubSeq(funcs, 1, i)))
        /\ \A k \in 1..Len(tasks) :
               InSeq(KeyOf(tasks[k]), BatchTrace(SubSeq(funcs, 1, i)))

\* C5 witness: a second call has returned after a first call that raised.
C5_Witness ==
    /\ pc = "done"
    /\ via = "multi"
    /\ callNo = 2
    /\ prev = "raise"
    /\ result = "return"

\* C6: with the filter {conv2d} and programs that dispatch conv2d and dense,
\* the conv2d invocations are recorded and returned as tasks, and none of
\* dense.
C6_FilterKeepsOnlyWanted ==
    (/\ EndedBatch
     /\ Benign(funcs)
     /\ ops = Only({"conv2d"})
     /\ \E k \in 1..Len(BatchTrace(funcs)) : BatchTrace(funcs)[k].name = "conv2d"
     /\ \E k \in 1..Len(BatchTrace(funcs)) : BatchTrace(funcs)[k].name = "dense")
    => /\ ledger = FirstSeen(funcs, ops)
       /\ \A k \in 1..Len(ledger) : ledger[k].name = "conv2d"
       /\ result = "return"
       /\ \A k \in 1..Len(tasks) : tasks[k].name = "conv2d"

\* C7: a call of extract_from_program runs extract_from_multiple_program on
\* the batch of one and ends as that call ends.
C7_SingleIsBatchOfOne ==
    (pc = "done" /\ via = "single") =>
        /\ entered
        /\ wanted = ops
        /\ err # "TypeError"

\* C8: a call with no programs returns the empty list without an error; no
\* pair is taken from zip, so no cache is cleared, no thread made and no
\* task constructed.
C8_EmptyBatch ==
    (pc = "done" /\ via = "multi" /\ funcs = << >>) =>
        /\ result = "return"
        /\ err = "none"
        /\ tasks = << >>
        /\ i = 0
        /\ clears = 0

\* C8 witness: a call with no programs, but with a parameter set, has
\* returned.
C8_Witness ==
    /\ pc = "done"
    /\ via = "multi"
    /\ funcs = << >>
    /\ params # << >>
    /\ result = "return"

\* C9: when a call that has suppressed logging ends, logger.disabled is what
\* it was when the call began.
C9_LogStateRestored ==
    (pc = "done" /\ entered) => loggerDisabled = logAtEntry

\* C10: when a call that entered the scope has ended, by return or by an
\* exception, the scope is not active; nor is it between calls.
C10_ScopeReleased ==
    /\ (pc = "done" /\ entered) => ~tracing
    /\ pc = "idle" => ~tracing

\* C10 witness: a call has ended by an exception raised inside the scope.
C10_Witness ==
    /\ pc = "done"
    /\ entered
    /\ result = "raise"
    /\ err = "NameError"
    /\ ~tracing

\* C11: when the construction of a recorded invocation fails with an error
\* that is no InvalidShapeError, that error ends the call and no list is
\* returned.
C11_OtherCreateErrorPropagates ==
    (/\ EndedBatch
     /\ NoneRaises(funcs)
     /\ NoneHangs(funcs)
     /\ CreateRaises(FirstSeen(funcs, ops)))
    => /\ result = "raise"
       /\ err = "CreateError"
       /\ tasks = << >>

\* C13: one scope spans the batch.  The scope is active only inside the with
\* block of a call that has reset the env; it is entered once, after the
\* reset; it stays active from the suppression of the log through every
\* iteration of the loop to the restoring of the log, without being left in
\* between; and the records are read and the tasks made after it is left.
C13_OneScopePerBatch ==
    /\ tracing =>
           /\ via = "multi"
           /\ entered
           /\ wanted = ops
           /\ pc \in { "savelog", "loop", "clear1", "mkthread", "unwind",
                       "restorelog", "exit" }
    /\ pc = "enter" => ~entered /\ ~tracing /\ wanted = ops /\ i = 0
    /\ pc \in { "savelog", "loop", "clear1", "mkthread", "restorelog", "exit" }
           => tracing
    /\ pc = "materialize" => entered /\ ~tracing
    /\ (pc = "done" /\ result = "return") => entered /\ ~tracing

\* C13 witness: the driver is inside the loop, at the first program's turn
\* of a batch of two programs, with the scope active.
C13_Witness ==
    /\ pc = "mkthread"
    /\ Len(funcs) = 2
    /\ Len(params) = 2
    /\ i = 1
    /\ entered
    /\ tracing

\* C14: for every program of a batch the cache is cleared once before its
\* lowering and once more after it, which makes 2n clears for n programs.
C14_TwoClearsPerProgram ==
    (EndedBatch /\ Benign(funcs)) =>
        /\ i = Len(funcs)
        /\ clears = 2 * Len(funcs)

\* C15: once the passes of a batch are over, the fallback warnings of the
\* dispatch layer are cleared.
C15_FallbackWarningsCleared ==
    (EndedBatch /\ Benign(funcs) /\ Len(funcs) >= 1) => warnings = {}

\* The first program of the batch whose lowering does not end normally is
\* one that never comes back.
HangsFirst(fs) ==
    \E k \in 1..Len(fs) :
        /\ LoweringHangs(fs[k])
        /\ \A m \in 1..(k - 1) : ~LoweringRaises(fs[m])

\* C16: a call on a batch with a program whose lowering never terminates
\* never ends.
C16_HangBlocksTheBatch ==
    (via = "multi" /\ Len(funcs) = Len(params) /\ HangsFirst(funcs))
        => pc # "done"

\* C17: after the tasks are made the ledger still holds every recorded
\* invocation, the rejected ones too; only their tasks are missing from the
\* list returned.
C17_MaterializeKeepsLedger ==
    (/\ EndedBatch
     /\ Benign(funcs)
     /\ \E k \in 1..Len(FirstSeen(funcs, ops)) : InvalidShape(FirstSeen(funcs, ops)[k]))
    => /\ ledger = FirstSeen(funcs, ops)
       /\ tasks = CreateTasks(ledger, target)
       /\ Len(tasks) < Len(ledger)

LoweringSteps(st) == SelectSeq(st, LAMBDA x : x \in {"optimize", "codegen"})

\* C18: a call of _lower whose relay.optimize succeeds has entered the vta
\* configuration exactly when the target's device is vta, has left every
\* configuration when it ends, and has optimized and then generated code.
C18_LowerScopedConfig ==
    (pc = "done" /\ via = "lower" /\ ~LoweringRaises(funcs[1])) =>
        /\ cfg = << >>
        /\ InSeq("vta.build_config", steps) <=> target.dev = "vta"
        /\ LoweringSteps(steps) = << "optimize", "codegen" >>

\* C19: the driver takes min(len(funcs), len(params)) pairs, in order, and
\* the call completes without an error whether or not the lengths agree.
C19_ZipStopsAtShorter ==
    (/\ pc = "done"
     /\ via = "multi"
     /\ Benign(SubSeq(funcs, 1, Min(Len(funcs), Len(params)))))
    => /\ i = Min(Len(funcs), Len(params))
       /\ result = "return"

====
